---- MODULE Spec2Model ----
(***************************************************************************)
(* Max-flow / min-cut linear programs of week2/"Max Flow + Min Cut.ipynb". *)
(*                                                                         *)
(* The notebook defines two functions, max_flow(nodes, arcs, capacity) and *)
(* min_cut(nodes, arcs, capacity).  Each builds a linear program, hands it *)
(* to the LP solver (m.optimize()) and prints the solution when the solver *)
(* status is OPTIMAL.  The source and the sink are the hard-coded node     *)
(* names "s" and "t".                                                      *)
(*                                                                         *)
(* A state is one notebook session: the problem data (nodes, capacity) and *)
(* the frame of the call made on it: which function, m.status, the         *)
(* exception raised, the solution, the objective value, the printed lines. *)
(*                                                                         *)
(* The solver is external.  m.optimize() is modelled by its contract: it   *)
(* reports INFEASIBLE / UNBOUNDED when the program built by the code is,   *)
(* and otherwise returns SOME optimal point of that program.  Optimal      *)
(* points are drawn from a finite grid that contains an optimal vertex:    *)
(* flows are multiples of the gcd of the capacities, cut variables are     *)
(* multiples of 1/Den in [0, 1] (stored multiplied by Den).                *)
(***************************************************************************)
EXTENDS Integers, FiniteSets, Sequences, TLC

VARIABLES nodes, capacity, call, status, raised, solution, objVal, printed,
          block

vars == <<nodes, capacity, call, status, raised, solution, objVal, printed,
          block>>

\* ------------------------------------------------------------------ bounds
\* largest capacity of the enumerated small networks
MaxCap == 2
\* largest number of arcs of the enumerated small networks
MaxArcs == 3
\* cut variables r, z take the values 0, 1/Den, ..., 1
Den == 2
\* largest value of the continuous variables a, b and of the parameter M
MaxVal == 4

\* ------------------------------------------------------------ problem data
source == "s"
sink == "t"

\* arcs = capacity.keys()
arcs == DOMAIN capacity

\* the notebook's data cell
Scenario1 ==
  [nodes |-> {"s", "A", "B", "C", "D", "t"},
   capacity |-> ( <<"s", "A">> :> 100 @@ <<"s", "B">> :> 150 @@
                  <<"A", "B">> :> 120 @@ <<"A", "C">> :> 90 @@
                  <<"B", "D">> :> 110 @@ <<"C", "D">> :> 120 @@
                  <<"C", "t">> :> 140 @@ <<"D", "t">> :> 90 )]

\* a single arc from the source to the sink, no intermediate node
Scenario2 ==
  [nodes |-> {"s", "t"}, capacity |-> ( <<"s", "t">> :> 50 )]

\* candidate arcs of the enumerated small networks on {s, A, B, t}: the six
\* arcs of a two-layer network, the direct arc s -> t, an arc entering the
\* source and an arc leaving the sink
SmallNodes == {"s", "A", "B", "t"}

ArcUniverse ==
  { <<"s", "A">>, <<"s", "B">>, <<"A", "B">>, <<"B", "A">>, <<"A", "t">>,
    <<"B", "t">>, <<"s", "t">>, <<"A", "s">>, <<"t", "B">> }

SmallArcSets == {A \in SUBSET ArcUniverse : Cardinality(A) <= MaxArcs}

SmallNetworks ==
  {[nodes |-> SmallNodes, capacity |-> c] :
     c \in UNION {[A -> 0..MaxCap] : A \in SmallArcSets}}

\* the problem data is one of SmallNetworks
IsSmallNetwork ==
  /\ nodes = SmallNodes
  /\ arcs \subseteq ArcUniverse
  /\ Cardinality(arcs) <= MaxArcs
  /\ \A a \in arcs : capacity[a] \in 0..MaxCap

\* inputs the functions accept although they are not networks: a node list
\* without the source, the sink or an arc's endpoint, a negative capacity
MalformedArcSets ==
  {A \in SUBSET {<<"s", "A">>, <<"A", "t">>, <<"s", "t">>} : Cardinality(A) <= 2}

MalformedInputs ==
  {[nodes |-> N, capacity |-> c] :
     N \in {{"s", "t"}, {"s", "A"}, {"A", "t"}, {"s", "A", "t"}},
     c \in UNION {[A -> {-1, 1}] : A \in MalformedArcSets}}

Inputs == SmallNetworks \cup MalformedInputs \cup {Scenario1, Scenario2}

\* ----------------------------------------------------------------- helpers
RECURSIVE SetSum(_, _)
SetSum(S, g) ==
  IF S = {} THEN 0
  ELSE LET e == CHOOSE x \in S : TRUE
       IN  g[e] + SetSum(S \ {e}, g)

SetMax(S) == CHOOSE v \in S : \A w \in S : v >= w

SetMin(S) == CHOOSE v \in S : \A w \in S : v <= w

Abs(n) == IF n < 0 THEN -n ELSE n

RECURSIVE Gcd(_, _)
Gcd(a, b) == IF b = 0 THEN a ELSE Gcd(b, a % b)

RECURSIVE GcdOf(_)
GcdOf(S) ==
  IF S = {} THEN 0
  ELSE LET e == CHOOSE x \in S : TRUE
       IN  Gcd(e, GcdOf(S \ {e}))

\* ---------------------------------------------------------------- max_flow
\* flow.sum(j, '*') and flow.sum('*', j): the arcs with tail j, with head j
OutArcs(j) == {a \in arcs : a[1] = j}
InArcs(j) == {a \in arcs : a[2] = j}

\* for j in nodes if j not in ('s', 't')
InteriorNodes == nodes \ {"s", "t"}

\* gp.quicksum(var for (i, j), var in flow.items() if i == "s"), sense=-1
FlowObjective(f) == SetSum(OutArcs("s"), f)

\* capacity row off by one
CapConstrMut(f, a) == f[a] <= capacity[a] + 1

\* flow.sum(i, j) <= capacity[i, j]
CapConstr(f, a) == f[a] <= capacity[a]

\* flow.sum(j, '*') == flow.sum('*', j)
Conservation(f, j) == SetSum(OutArcs(j), f) = SetSum(InArcs(j), f)

\* grid of the flow values: addVars gives every flow the lower bound 0; the
\* vertices of the program are integer combinations of the capacities
CapValues == {Abs(capacity[a]) : a \in arcs}
FlowUnit == IF GcdOf(CapValues) = 0 THEN 1 ELSE GcdOf(CapValues)
FlowGrid == {v \in 0..SetMax(CapValues \cup {0}) : v % FlowUnit = 0}

\* order in which the enumeration assigns the arcs: an arc at the interior
\* node with the fewest unassigned arcs first, so that a conservation row is
\* complete, and can be tested, as early as possible
Rank(a, done) ==
  LET ends == {a[1], a[2]} \cap InteriorNodes
  IN  IF ends = {} THEN Cardinality(arcs) + 1
      ELSE SetMin({Cardinality((OutArcs(j) \cup InArcs(j)) \ done) : j \in ends})

NextArc(done) ==
  CHOOSE a \in arcs \ done : \A b \in arcs \ done : Rank(a, done) <= Rank(b, done)

\* the grid points that satisfy every row of the flow program
RECURSIVE FlowExtend(_, _)
FlowExtend(done, partials) ==
  IF done = arcs THEN partials
  ELSE LET a == NextArc(done)
           d2 == done \cup {a}
           closed == {j \in InteriorNodes \cap {a[1], a[2]} :
                        (OutArcs(j) \cup InArcs(j)) \subseteq d2}
           ext == {p @@ (a :> v) : p \in partials, v \in FlowGrid}
       IN  FlowExtend(d2, {q \in ext : /\ CapConstr(q, a)
                                       /\ \A j \in closed : Conservation(q, j)})

FlowPoints == FlowExtend({}, {<<>>})

FlowOptimum(points) == SetMax({FlowObjective(f) : f \in points})

\* def max_flow(nodes, arcs, capacity)
\* (points and best are bound by \E over a singleton so that each is
\* evaluated once)
MaxFlow ==
  /\ call = "none"
  /\ call' = "max_flow"
  /\ \E points \in {FlowPoints} :
       IF points = {}
       THEN \* m.status is not GRB.OPTIMAL: nothing is printed or raised
            /\ status' = "INFEASIBLE"
            /\ raised' = "none"
            /\ solution' = <<>>
            /\ objVal' = 0
            /\ printed' = {}
       ELSE \E best \in {FlowOptimum(points)} :
              \E x \in {f \in points : FlowObjective(f) = best} :
                /\ status' = "OPTIMAL"
                /\ raised' = "none"
                /\ solution' = x
                /\ objVal' = best
                /\ printed' = {<<a, x[a]>> : a \in {b \in arcs : x[b] > 0}}
  /\ UNCHANGED <<nodes, capacity, block>>

\* ----------------------------------------------------------------- min_cut
\* keys of connect: (i for i in nodes if i not in ("s", "t"))
ConnectKeys == nodes \ {"s", "t"}

\* the sink row without its connect term
CutRowMut(a) ==
  IF a[1] = "s" THEN [pos |-> {a[2]}, neg |-> {}, rhs |-> 1]
  ELSE IF a[2] = "t" THEN [pos |-> {}, neg |-> {}, rhs |-> 0]
  ELSE [pos |-> {a[2]}, neg |-> {a[1]}, rhs |-> 0]

\* the row the loop adds for arc a = (i, j):  remove[a] + sum of connect over
\* pos - sum of connect over neg >= rhs
\*   if i == "s":    remove["s", j] + connect[j] >= 1
\*   elif j == "t":  remove[i, "t"] - connect[i] >= 0
\*   else:           remove[i, j] + connect[j] - connect[i] >= 0
CutRow(a) ==
  IF a[1] = "s" THEN [pos |-> {a[2]}, neg |-> {}, rhs |-> 1]
  ELSE IF a[2] = "t" THEN [pos |-> {}, neg |-> {a[1]}, rhs |-> 0]
  ELSE [pos |-> {a[2]}, neg |-> {a[1]}, rhs |-> 0]

\* connect[k] for a k that is not a key of connect raises KeyError while the
\* rows are built, before m.optimize()
CutKeyError ==
  \E a \in arcs : ~((CutRow(a).pos \cup CutRow(a).neg) \subseteq ConnectKeys)

\* every row with the right-hand side 0
RowHoldsMut(a, v, z) ==
  v + SetSum(CutRow(a).pos, z) - SetSum(CutRow(a).neg, z) >= 0

\* value v (in units of 1/Den) of remove[a] satisfies the row of a under z
RowHolds(a, v, z) ==
  v + SetSum(CutRow(a).pos, z) - SetSum(CutRow(a).neg, z) >= CutRow(a).rhs * Den

\* threshold test reversed
SelectedMut(v) == 2 * v < Den

\* solution[i, j] > 0.5
Selected(v) == 2 * v > Den

\* remove and connect have the lower bound 0 and no upper bound, and
\* remove[a] occurs in the row of a only: a negative objective coefficient
\* capacity[a] makes the program unbounded
CutUnbounded == \E a \in arcs : capacity[a] < 0

\* For a fixed z the rows are independent, one per remove[a], so the grid
\* points that minimise sum(capacity[a] * remove[a]) are found per arc.
RemoveChoices(a, z) == {v \in 0..Den : RowHolds(a, v, z)}

LeastCost(a, z) == SetMin({capacity[a] * v : v \in RemoveChoices(a, z)})

BestRemove(a, z) == {v \in RemoveChoices(a, z) : capacity[a] * v = LeastCost(a, z)}

CutObjective(z) == SetSum(arcs, [a \in arcs |-> LeastCost(a, z)])

\* the grid of connect
ConnectGrid == [ConnectKeys -> 0..Den]

\* Den times the optimal objective value
CutOptimum == SetMin({CutObjective(z) : z \in ConnectGrid})

\* the optimal grid points: connect is a z whose least objective is the
\* optimum best, remove takes for every arc a value of least cost under z
CutBestConnect(best) == {z \in ConnectGrid : CutObjective(z) = best}

CutBestRemove(br) == {r \in [arcs -> 0..Den] : \A a \in arcs : r[a] \in br[a]}

\* def min_cut(nodes, arcs, capacity); objVal is Den times the objective
\* (best and br are bound by \E over a singleton so that each is evaluated
\* once)
MinCut ==
  /\ call = "none"
  /\ call' = "min_cut"
  /\ IF CutKeyError
     THEN /\ status' = "none"
          /\ raised' = "KeyError"
          /\ solution' = <<>>
          /\ objVal' = 0
          /\ printed' = {}
     ELSE IF CutUnbounded
     THEN \* m.status is not GRB.OPTIMAL: nothing is printed or raised
          /\ status' = "UNBOUNDED"
          /\ raised' = "none"
          /\ solution' = <<>>
          /\ objVal' = 0
          /\ printed' = {}
     ELSE \E best \in {CutOptimum} :
          \E z \in CutBestConnect(best) :
          \E br \in {[a \in arcs |-> BestRemove(a, z)]} :
          \E r \in CutBestRemove(br) :
            /\ status' = "OPTIMAL"
            /\ raised' = "none"
            /\ solution' = [r |-> r, z |-> z]
            /\ objVal' = best
            /\ printed' = {<<a, capacity[a]>> : a \in {b \in arcs : Selected(r[b])}}
  /\ UNCHANGED <<nodes, capacity, block>>

\* ------------------------------------------- residual-graph cut extraction
\* The notebook has no residual-graph extraction; it is modelled from the
\* design document (Cut Extractor, strategy (a)), as is the Network invariant.

\* Network invariant: source and sink are distinct members of nodes, every
\* arc joins two different members of nodes, capacities are non-negative
ValidNetwork ==
  /\ source /= sink
  /\ source \in nodes
  /\ sink \in nodes
  /\ \A a \in arcs : a[1] \in nodes /\ a[2] \in nodes /\ a[1] /= a[2]
  /\ \A a \in arcs : capacity[a] >= 0

\* nodes reachable from the members of S along the directed edges E
RECURSIVE Reach(_, _)
Reach(S, E) ==
  LET n == S \cup {e[2] : e \in {d \in E : d[1] \in S}}
  IN  IF n = S THEN S ELSE Reach(n, E)

\* a forward edge for each arc with flow < capacity, a backward edge for each
\* arc with flow > 0
ResidualEdges(f) ==
  {a \in arcs : f[a] < capacity[a]}
    \cup {<<a[2], a[1]>> : a \in {b \in arcs : f[b] > 0}}

\* the set S of nodes reachable from the source in the residual graph
ResidualSide(f) == Reach({source}, ResidualEdges(f))

\* the saturated arcs crossing from S to its complement
ResidualCutArcs(f, S) ==
  {a \in arcs : a[1] \in S /\ a[2] \notin S /\ f[a] = capacity[a]}

\* extraction from the flow f; objVal is the capacity of the reported cut
ResidualExtract(f) ==
  /\ call' = "residual_cut"
  /\ status' = status
  /\ solution' = f
  /\ \E S \in {ResidualSide(f)} :
       IF sink \in S
       THEN /\ raised' = "NotOptimalError"
            /\ objVal' = 0
            /\ printed' = {}
       ELSE /\ raised' = "none"
            /\ objVal' = SetSum(ResidualCutArcs(f, S), capacity)
            /\ printed' = {<<a, capacity[a]>> : a \in ResidualCutArcs(f, S)}
  /\ UNCHANGED <<nodes, capacity, block>>

\* extraction from the optimal flow that max_flow has just returned
ResidualCutOfSolution ==
  /\ call = "max_flow"
  /\ status = "OPTIMAL"
  /\ ValidNetwork
  /\ ResidualExtract(solution)

\* extraction from any feasible flow assignment of a small network
ResidualCutOfFlow ==
  /\ call = "none"
  /\ ValidNetwork
  /\ IsSmallNetwork
  /\ \E f \in FlowPoints : ResidualExtract(f)

\* ------------------------------------------------ MIP model building blocks
\* week2/"MIP Model Building Blocks-TO COMPLETE.ipynb", block 2a.  The
\* notebook states the blocks in markdown; a block is modelled as the pair of
\* truth values of the product constraint and of its linearisation at a
\* point.  The continuous variables range over a grid 0..MaxVal.

\* a, b are non-negative continuous variables, y is binary, M is ub(b): an
\* upper bound of b, so only points with b <= M exist
BlockPoints ==
  {p \in [a : 0..MaxVal, b : 0..MaxVal, y : {0, 1}, M : 0..MaxVal] : p.b <= p.M}

\* a <= b * y
Product2a(a, b, y) == a <= b * y

\* the linearisation without its second constraint
Linear2aMut(a, b, y, M) == a <= M * y

\* the two constraints   a <= M * y   and   a <= b
Linear2a(a, b, y, M) == a <= M * y /\ a <= b

\* no block is posed in a max-flow / min-cut session
NoBlock == [stage |-> "none"]

\* a point of the variables of block 2a is posed
InitBlocks ==
  /\ nodes = {}
  /\ capacity = <<>>
  /\ call = "none"
  /\ status = "none"
  /\ raised = "none"
  /\ solution = <<>>
  /\ objVal = 0
  /\ printed = {}
  /\ \E p \in BlockPoints : block = [stage |-> "posed", point |-> p]

\* both forms of block 2a are evaluated at the posed point
Linearise2a ==
  /\ block.stage = "posed"
  /\ block' = [stage |-> "linearised", point |-> block.point,
               product |-> Product2a(block.point.a, block.point.b, block.point.y),
               linear |-> Linear2a(block.point.a, block.point.b, block.point.y,
                                   block.point.M)]
  /\ UNCHANGED <<nodes, capacity, call, status, raised, solution, objVal, printed>>

NextBlocks == Linearise2a

SpecBlocks == InitBlocks /\ [][NextBlocks]_vars

Init ==
  /\ \E net \in Inputs : nodes = net.nodes /\ capacity = net.capacity
  /\ call = "none"
  /\ status = "none"
  /\ raised = "none"
  /\ solution = <<>>
  /\ objVal = 0
  /\ printed = {}
  /\ block = NoBlock

Next == MaxFlow \/ MinCut \/ ResidualCutOfSolution \/ ResidualCutOfFlow

Spec == Init /\ [][Next]_vars

\* ------------------------------------------------------------------ claims
\* the arcs in C removed, no directed path leads from the source to the sink
Disconnects(C) == sink \notin Reach({source}, arcs \ C)

CapOf(C) == SetSum(C, capacity)

IsScenario1 == nodes = Scenario1.nodes /\ capacity = Scenario1.capacity
IsScenario2 == nodes = Scenario2.nodes /\ capacity = Scenario2.capacity

\* the arcs min_cut reports for the solution x
CutOf(x) == {a \in arcs : Selected(x.r[a])}

\* C1: on every valid network min_cut ends with an optimal objective equal
\* to the optimal objective of the max-flow program.
C1_MaxFlowEqualsMinCut ==
  (call = "min_cut" /\ ValidNetwork)
    => (status = "OPTIMAL" /\ objVal = Den * FlowOptimum(FlowPoints))

\* C2: on the notebook's network the maximum flow is 180, min_cut reports
\* exactly the arcs (A,C) and (D,t) with value 180, and no other arc set of
\* capacity at most 180 disconnects s from t.
C2_Scenario1 ==
  IsScenario1 =>
    /\ call = "max_flow" => (status = "OPTIMAL" /\ objVal = 180)
    /\ call = "min_cut" =>
         /\ status = "OPTIMAL"
         /\ objVal = 180 * Den
         /\ printed = {<<<<"A", "C">>, 90>>, <<<<"D", "t">>, 90>>}
    /\ \A C \in SUBSET arcs :
         (Disconnects(C) /\ CapOf(C) <= 180) => C = {<<"A", "C">>, <<"D", "t">>}

C2_Witness ==
  /\ IsScenario1
  /\ call = "min_cut"
  /\ status = "OPTIMAL"
  /\ printed /= {}

\* C3: on the network whose only arc is (s,t) with capacity 50, max_flow
\* returns 50 and min_cut completes with the cut {(s,t)} of value 50.
C3_SingleArc ==
  IsScenario2 =>
    /\ call = "max_flow" => (status = "OPTIMAL" /\ objVal = 50)
    /\ call = "min_cut" =>
         /\ raised = "none"
         /\ status = "OPTIMAL"
         /\ objVal = 50 * Den
         /\ printed = {<<<<"s", "t">>, 50>>}

\* C4: every flow assignment max_flow returns lies within 0 and the capacity
\* on every arc and conserves flow at every node other than source and sink.
C4_FlowFeasible ==
  (call = "max_flow" /\ status = "OPTIMAL") =>
    /\ DOMAIN solution = arcs
    /\ \A a \in arcs : 0 <= solution[a] /\ solution[a] <= capacity[a]
    /\ \A j \in nodes \ {source, sink} :
         SetSum({a \in arcs : a[2] = j}, solution)
           = SetSum({a \in arcs : a[1] = j}, solution)

C4_Witness ==
  /\ ValidNetwork
  /\ call = "max_flow"
  /\ status = "OPTIMAL"
  /\ \E j \in nodes \ {source, sink} :
       SetSum({a \in arcs : a[2] = j}, solution) > 0

\* C5: on every valid network the residual-graph extraction, applied to an
\* optimal flow, and min_cut report the same cut value.
C5_StrategiesAgree ==
  (call = "residual_cut" /\ status = "OPTIMAL") =>
    /\ raised = "none"
    /\ ~CutKeyError
    /\ Den * objVal = CutOptimum

\* C6: on every valid network, for every optimal solution of the min-cut
\* program, the arcs with r > 0.5 disconnect the source from the sink and
\* their capacities add up to the optimal objective.
C6_EveryOptimumIsCut ==
  (call = "min_cut" /\ status = "OPTIMAL" /\ ValidNetwork) =>
    /\ Disconnects(CutOf(solution))
    /\ Den * CapOf(CutOf(solution)) = objVal

\* C6 amended: the same, for every optimal solution in which every r is 0
\* or 1.
C6_IntegralOptimumIsCut ==
  (/\ call = "min_cut"
   /\ status = "OPTIMAL"
   /\ ValidNetwork
   /\ \A a \in arcs : solution.r[a] \in {0, Den}) =>
    /\ Disconnects(CutOf(solution))
    /\ Den * CapOf(CutOf(solution)) = objVal

C6_Witness ==
  /\ call = "min_cut"
  /\ status = "OPTIMAL"
  /\ ValidNetwork
  /\ \A a \in arcs : solution.r[a] \in {0, Den}
  /\ CutOf(solution) /= {}
  /\ objVal > 0

\* C7: on a valid network the residual-graph extraction from a feasible
\* flow raises NotOptimalError exactly when the value of the flow is below
\* the maximum.
C7_NotOptimalIffBelowMax ==
  (call = "residual_cut" /\ ValidNetwork) =>
    ((raised = "NotOptimalError")
       <=> (FlowObjective(solution) < FlowOptimum(FlowPoints)))

\* C8: for an input that violates the Network invariant a call raises
\* InvalidNetworkError and produces no result.
C8_InvalidRejected ==
  (~ValidNetwork /\ call \in {"max_flow", "min_cut"}) =>
    (raised = "InvalidNetworkError" /\ status /= "OPTIMAL" /\ printed = {})

\* C9: on a valid network whose sink cannot be reached from the source,
\* max_flow reports 0 and min_cut reports 0, or both raise
\* DegenerateNetworkError.
C9_UnreachableSinkZero ==
  (ValidNetwork /\ sink \notin Reach({source}, arcs)
     /\ call \in {"max_flow", "min_cut"}) =>
    \/ raised = "none" /\ status = "OPTIMAL" /\ objVal = 0
    \/ raised = "DegenerateNetworkError"

\* the solution holds a value for every variable of the program
ResultComplete ==
  IF call = "max_flow" THEN DOMAIN solution = arcs
  ELSE DOMAIN solution.r = arcs /\ DOMAIN solution.z = ConnectKeys

\* C10: a call ends either with a complete result or with an exception, never
\* with neither; a solver status other than OPTIMAL is raised as an error.
C10_ResultOrError ==
  call \in {"max_flow", "min_cut"} =>
    \/ raised = "none" /\ status = "OPTIMAL" /\ ResultComplete
    \/ raised /= "none" /\ status /= "OPTIMAL"

\* C11: building block 2a: at every point with a, b non-negative, y binary
\* and b <= M = ub(b), the constraint a <= b * y holds if and only if both
\* a <= M * y and a <= b hold.
C11_Block2a ==
  block.stage = "linearised" => (block.product <=> block.linear)

\* a point where y = 1 and a exceeds b although a <= M: a <= M * y is off and
\* a <= b alone decides
C11_Witness ==
  /\ block.stage = "linearised"
  /\ block.point.y = 1
  /\ block.point.b < block.point.a
  /\ block.point.a <= block.point.M
  /\ ~block.product

\* C12: for every arc set whose arcs join members of nodes, every connect
\* (z) variable that the row of an arc refers to was created, i.e. belongs
\* to a node other than s and t, and min_cut does not fail on a missing one
\* -- also for an arc (s,t), an arc entering s or an arc leaving t.
C12_NoMissingConnect ==
  (call = "min_cut" /\ \A a \in arcs : a[1] \in nodes /\ a[2] \in nodes)
    => /\ \A a \in arcs : (CutRow(a).pos \cup CutRow(a).neg) \subseteq ConnectKeys
       /\ raised /= "KeyError"

\* the objective values (times Den) of the feasible points of min_cut's
\* program: for a connect z, remove[a] may take any value that satisfies the
\* row of a, so the value of a feasible (r, z) is at least CutObjective(z),
\* and CutObjective(z) is itself the value of a feasible point
LeastCutValues == {CutObjective(z) : z \in ConnectGrid}

\* the objective values of the feasible points of max_flow's program
FlowValues == {FlowObjective(f) : f \in FlowPoints}

====
